---- MODULE Spec2Model ----
(***************************************************************************)
(* Prim minimum spanning tree over a Euclidean point set and its plot, as  *)
(* implemented in src/src/mstmain/mst.go.                                  *)
(*                                                                         *)
(*   Spec        findDistances and findMST, statement by statement: the    *)
(*               PriorityQueue (a map from heap slot to *Item driven by    *)
(*               container/heap), visit and the main loop, on every point  *)
(*               set of at most MaxV vertices drawn from Points.           *)
(*   SpecHandler concurrent handlePrimMST goroutines around the            *)
(*               package-level variable primmst.                           *)
(*   SpecPlot    one request from the parsed form through                  *)
(*               generateVertices, findDistances and findMST to the grid   *)
(*               written by plotMST.                                       *)
(*   SpecFair    Spec with weak fairness of its steps, on the point sets   *)
(*               drawn from the first FairNPoints points.                  *)
(*   SpecWide    SpecPlot's steps on the one box (0,0)-(WideXmax,WideYmax) *)
(*               with up to WideMaxV vertices.                             *)
(*                                                                         *)
(* float64 distances are modelled in fixed point: a distance d is the      *)
(* integer floor(d * DistScale).  math.MaxFloat64 is a sentinel larger     *)
(* than every distance of the bounded point sets.  The branch of           *)
(* generateVertices that reloads vertices.csv, the axis labels and the     *)
(* HTML template are I/O and not part of the state.                        *)
(***************************************************************************)
EXTENDS Integers, Sequences, FiniteSets, TLC

VARIABLES
    pc,        \* position of the pipeline / of findMST
    location,  \* p.location : vertex index -> point
    graph,     \* p.graph    : V x V distance matrix
    mst,       \* p.mst      : vertex index -> Edge or Nil
    marked,    \* findMST's marked slice
    distTo,    \* findMST's distTo slice
    pq,        \* findMST's PriorityQueue: heap slot -> Item
    item,      \* the Item returned by the last heap.Pop (Nil before)
    w,         \* visit's range position over p.graph[v]
    extracted, \* the vertices heap.Pop has returned so far, in order
    fault,     \* the run-time panic that ended the goroutine ("none" before)
    primmst,   \* the package-level variable primmst: the instance it points to
    instances, \* the PrimMST instances allocated so far: id -> contents
    rpc,       \* position of each handlePrimMST goroutine
    recv,      \* the receiver p of the method each goroutine called last
    form,      \* each request's form: "ok" or "bad" (unparsable)
    response,  \* what each request's plotMST rendered
    formv,     \* the parsed form values xmin, ymin, xmax, ymax, vertices
    endpoints, \* p.Endpoints
    Grid,      \* plot.Grid: the cells written so far, index -> label
    distance,  \* plotMST's running total of the edge lengths
    e,         \* plotMST's position in range p.mst[1:]
    nanInt     \* what int(NaN) yields on the build at hand

mstVars == <<location, graph, mst, marked, distTo, pq, item, w, extracted>>

handlerVars == <<primmst, instances, rpc, recv, form, response>>

plotVars == <<formv, endpoints, Grid, distance, e, nanInt>>

\* what the actions of findMST leave alone
otherVars == <<handlerVars, plotVars>>

vars == <<pc, fault, mstVars, handlerVars, plotVars>>

(* ------------------------------ bounds -------------------------------- *)

\* largest number of vertices of a point set
MaxV == 4
\* number of lattice points of PointPool the vertices are drawn from
NPoints == 7
\* fixed-point resolution of a float64 distance
DistScale == 100
\* number of lattice points of PointPool in the runs checked for termination
FairNPoints == 4

(* --------------------------- program values --------------------------- *)

\* math.MaxFloat64
MaxFloat64 == 1000000000

Nil == [nil |-> TRUE]

\* lattice points, in the order the bound NPoints admits them
PointPool ==
    << [x |-> 0, y |-> 0], [x |-> 0, y |-> 2], [x |-> 0, y |-> 1],
       [x |-> 1, y |-> 2], [x |-> 2, y |-> 0], [x |-> 1, y |-> 1],
       [x |-> 2, y |-> 2], [x |-> 1, y |-> 0], [x |-> 2, y |-> 1],
       [x |-> 3, y |-> 1], [x |-> 0, y |-> 3], [x |-> 3, y |-> 3] >>

Min2(a, b) == IF a < b THEN a ELSE b

Points == { PointPool[i] : i \in 1..Min2(NPoints, Len(PointPool)) }

Verts(loc) == DOMAIN loc

NumVerts(loc) == Cardinality(DOMAIN loc)

(* ------------------------------ distances ----------------------------- *)

RECURSIVE SqrtSearch(_, _, _)
\* largest r in lo..hi with r*r <= n (lo*lo <= n < (hi+1)*(hi+1))
SqrtSearch(n, lo, hi) ==
    IF lo >= hi THEN lo
    ELSE LET mid == (lo + hi + 1) \div 2
         IN  IF mid * mid <= n THEN SqrtSearch(n, mid, hi)
             ELSE SqrtSearch(n, lo, mid - 1)

\* cmplx.Abs(a - b) in fixed point
CAbs(a, b) ==
    LET dx == a.x - b.x
        dy == a.y - b.y
        n  == (dx * dx + dy * dy) * DistScale * DistScale
        ax == IF dx < 0 THEN -dx ELSE dx
        ay == IF dy < 0 THEN -dy ELSE dy
    IN  SqrtSearch(n, 0, (ax + ay) * DistScale)

\* the matrix findDistances stores in p.graph
DistanceMatrix(loc) ==
    [i \in Verts(loc) |->
        [j \in Verts(loc) |->
            IF i = j THEN MaxFloat64 ELSE CAbs(loc[i], loc[j])]]

(* --------------------------- PriorityQueue ---------------------------- *)

\* PriorityQueue.Len
PQLen(q) == Cardinality(DOMAIN q)

\* PriorityQueue.Less with the comparison turned around
LessReversed(q, i, j) == q[i].distance > q[j].distance

\* PriorityQueue.Less
Less(q, i, j) == q[i].distance < q[j].distance

\* PriorityQueue.Swap without the two assignments to index
SwapKeepIndex(q, i, j) ==
    [k \in DOMAIN q |->
        IF k = i THEN q[j]
        ELSE IF k = j THEN q[i]
        ELSE q[k]]

\* PriorityQueue.Swap
Swap(q, i, j) ==
    [k \in DOMAIN q |->
        IF k = i THEN [q[j] EXCEPT !.index = i]
        ELSE IF k = j THEN [q[i] EXCEPT !.index = j]
        ELSE q[k]]

\* Go's (j - 1) / 2 truncates toward zero
Parent(j) == IF j = 0 THEN 0 ELSE (j - 1) \div 2

RECURSIVE up(_, _)
\* container/heap.up
up(q, j) ==
    LET i == Parent(j)
    IN  IF i = j \/ ~Less(q, j, i) THEN q
        ELSE up(Swap(q, i, j), i)

RECURSIVE downFrom(_, _, _)
\* the loop of container/heap.down: the queue and the slot it stops at
downFrom(q, i, n) ==
    LET j1 == 2 * i + 1
    IN  IF j1 >= n THEN [q |-> q, i |-> i]
        ELSE LET j2 == j1 + 1
                 j  == IF j2 < n /\ Less(q, j2, j1) THEN j2 ELSE j1
             IN  IF ~Less(q, j, i) THEN [q |-> q, i |-> i]
                 ELSE downFrom(Swap(q, i, j), j, n)

\* container/heap.down: the queue and whether the item moved
down(q, i0, n) ==
    LET r == downFrom(q, i0, n)
    IN  [q |-> r.q, moved |-> r.i > i0]

\* PriorityQueue.Push
PQPush(q, it) ==
    LET n == PQLen(q)
    IN  [k \in DOMAIN q \cup {n} |->
            IF k = n THEN [it EXCEPT !.index = n] ELSE q[k]]

\* heap.Push
HeapPush(q, it) ==
    LET q1 == PQPush(q, it)
    IN  up(q1, PQLen(q1) - 1)

\* heap.Fix
HeapFix(q, i) ==
    LET r == down(q, i, PQLen(q))
    IN  IF r.moved THEN r.q ELSE up(r.q, i)

\* PriorityQueue.update: the item stored under key slot gets the distance
update(q, slot, dist) ==
    LET q1 == [q EXCEPT ![slot].distance = dist]
    IN  HeapFix(q1, q1[slot].index)

\* heap.Pop: the remaining queue and the removed item
HeapPop(q) ==
    LET n  == PQLen(q) - 1
        q1 == down(Swap(q, 0, n), 0, n).q
    IN  [q    |-> [k \in DOMAIN q1 \ {n} |-> q1[k]],
         item |-> [q1[n] EXCEPT !.index = -1]]

EmptyMap == [k \in {} |-> Nil]

(* ------------------------------ findMST ------------------------------- *)

\* the slices and the queue findMST works on, as one value
FindMSTState(m, mk, dt, q) == [mst |-> m, marked |-> mk, distTo |-> dt, pq |-> q]

\* &Edge{v: w, w: v}: the edge recorded with its ends exchanged
NewEdgeSwapped(v, ww) == [v |-> ww, w |-> v]

\* &Edge{v: v, w: w}
NewEdge(v, ww) == [v |-> v, w |-> ww]

\* &Item{Edge: Edge{v: v, w: w}, distance: dist}
NewItem(v, ww, dist) == [v |-> v, w |-> ww, index |-> 0, distance |-> dist]

\* item, ok := pq[w]: the map is keyed by heap slot, and w is looked up in it
InQueue(q, ww) == ww \in DOMAIN q

\* if dist > distTo[w]: the comparison turned around
BetterReversed(g, st, v, ww) == g[v][ww] > st.distTo[ww]

\* if dist < distTo[w]
Better(g, st, v, ww) == g[v][ww] < st.distTo[ww]

\* the body of visit's range loop without "if marked[w] { continue }"
RangeBodyMarkedToo(g, st, v, ww) ==
    IF ~Better(g, st, v, ww) THEN st
    ELSE [st EXCEPT
            !.mst[ww] = NewEdge(v, ww),
            !.distTo[ww] = g[v][ww],
            !.pq = IF InQueue(st.pq, ww)
                   THEN update(st.pq, ww, g[v][ww])
                   ELSE HeapPush(st.pq, NewItem(v, ww, g[v][ww]))]

\* the body of visit's range loop for one w
RangeBody(g, st, v, ww) ==
    IF st.marked[ww] \/ ~Better(g, st, v, ww) THEN st
    ELSE [st EXCEPT
            !.mst[ww] = NewEdge(v, ww),
            !.distTo[ww] = g[v][ww],
            !.pq = IF InQueue(st.pq, ww)
                   THEN update(st.pq, ww, g[v][ww])
                   ELSE HeapPush(st.pq, NewItem(v, ww, g[v][ww]))]

\* the slices, and a queue the seed item was never put into
SeedStateEmpty(loc) ==
    FindMSTState([i \in Verts(loc) |-> Nil],
                 [i \in Verts(loc) |-> FALSE],
                 [i \in Verts(loc) |-> MaxFloat64],
                 EmptyMap)

\* the slices and the queue with the seed item, after heap.Init
SeedState(loc) ==
    FindMSTState([i \in Verts(loc) |-> Nil],
                 [i \in Verts(loc) |-> FALSE],
                 [i \in Verts(loc) |-> MaxFloat64],
                 (0 :> [v |-> 0, w |-> 0, index |-> 0, distance |-> MaxFloat64]))

\* for len(pq) > 0
LoopCond(q) == PQLen(q) > 0

RECURSIVE visitFrom(_, _, _, _)
\* visit's range loop from position ww on
visitFrom(g, st, v, ww) ==
    IF ww \notin DOMAIN g[v] THEN st
    ELSE visitFrom(g, RangeBody(g, st, v, ww), v, ww + 1)

\* visit(v)
visit(g, st, v) == visitFrom(g, [st EXCEPT !.marked[v] = TRUE], v, 0)

RECURSIVE mainLoopFrom(_, _, _)
\* for len(pq) > 0 { item := heap.Pop(&pq).(*Item); visit(item.w) }
\* with the vertices extracted so far
mainLoopFrom(g, st, ex) ==
    IF ~LoopCond(st.pq) THEN [st |-> st, extracted |-> ex]
    ELSE LET r == HeapPop(st.pq)
         IN  mainLoopFrom(g, visit(g, [st EXCEPT !.pq = r.q], r.item.w),
                          Append(ex, r.item.w))

\* the slices and the queue when the main loop ends
mainLoop(g, st) == mainLoopFrom(g, st, << >>).st

\* the nil *PrimMST (instances are numbered from 1)
NoInstance == 0

\* no request is being served
HandlerIdle ==
    /\ primmst = NoInstance
    /\ instances = EmptyMap
    /\ rpc = EmptyMap
    /\ recv = EmptyMap
    /\ form = EmptyMap
    /\ response = EmptyMap

\* Endpoints{}
ZeroEndpoints == [xmin |-> 0, xmax |-> 0, ymin |-> 0, ymax |-> 0]

\* no form has been parsed and nothing is plotted
PlotIdle ==
    /\ formv = Nil
    /\ endpoints = ZeroEndpoints
    /\ Grid = EmptyMap
    /\ distance = 0
    /\ e = 0
    /\ nanInt = 0

(* ------------------------------- Init --------------------------------- *)

Init ==
    /\ pc = "findDistances"
    /\ fault = "none"
    /\ \E n \in 0..MaxV : location \in [0..(n - 1) -> Points]
    /\ graph = EmptyMap
    /\ mst = EmptyMap
    /\ marked = EmptyMap
    /\ distTo = EmptyMap
    /\ pq = EmptyMap
    /\ item = Nil
    /\ w = 0
    /\ extracted = << >>
    /\ HandlerIdle
    /\ PlotIdle

(* ------------------------------ actions ------------------------------- *)

\* findDistances
FindDistances ==
    /\ pc = "findDistances"
    /\ UNCHANGED otherVars
    /\ graph' = DistanceMatrix(location)
    /\ pc' = "findMST"
    /\ UNCHANGED <<fault, location, mst, marked, distTo, pq, item, w, extracted>>

\* findMST up to heap.Init: the slices, the empty queue and the seed item.
\* With no vertex, distTo[0] = math.MaxFloat64 indexes an empty slice.
FindMSTBegin ==
    /\ pc = "findMST"
    /\ UNCHANGED otherVars
    /\ LET st == SeedState(location)
       IN  /\ mst' = st.mst
           /\ marked' = st.marked
           /\ distTo' = st.distTo
           /\ IF 0 \in Verts(location)
              THEN /\ pq' = st.pq
                   /\ pc' = "loop"
                   /\ fault' = fault
              ELSE /\ pq' = EmptyMap
                   /\ pc' = "panic"
                   /\ fault' = "distTo[0]: index out of range"
    /\ UNCHANGED <<location, graph, item, w, extracted>>

\* for len(pq) > 0 { item := heap.Pop(&pq) ...
\* heap.Pop on an empty map dereferences the nil pq[0] in Swap.
LoopPop ==
    /\ pc = "loop"
    /\ UNCHANGED otherVars
    /\ LoopCond(pq)
    /\ IF PQLen(pq) = 0
       THEN /\ pc' = "panic"
            /\ fault' = "heap.Pop: empty queue"
            /\ UNCHANGED <<pq, item, extracted>>
       ELSE /\ LET r == HeapPop(pq)
               IN  /\ pq' = r.q
                   /\ item' = r.item
                   /\ extracted' = Append(extracted, r.item.w)
            /\ pc' = "visit"
            /\ fault' = fault
    /\ UNCHANGED <<location, graph, mst, marked, distTo, w>>

\* the loop condition fails: return nil
LoopExit ==
    /\ pc = "loop"
    /\ UNCHANGED otherVars
    /\ ~LoopCond(pq)
    /\ pc' = "done"
    /\ UNCHANGED <<fault, mstVars>>

\* visit(item.w) without marked[v] = true
VisitNoMark ==
    /\ pc = "visit"
    /\ UNCHANGED otherVars
    /\ w' = 0
    /\ pc' = "range"
    /\ UNCHANGED <<fault, location, graph, mst, marked, distTo, pq, item, extracted>>

\* visit(item.w): marked[v] = true
VisitMark ==
    /\ pc = "visit"
    /\ UNCHANGED otherVars
    /\ marked' = [marked EXCEPT ![item.w] = TRUE]
    /\ w' = 0
    /\ pc' = "range"
    /\ UNCHANGED <<fault, location, graph, mst, distTo, pq, item, extracted>>

\* one iteration of visit's range loop
RangeStep ==
    LET st == RangeBody(graph, FindMSTState(mst, marked, distTo, pq), item.w, w)
    IN  /\ mst' = st.mst
        /\ distTo' = st.distTo
        /\ pq' = st.pq
        /\ w' = w + 1
        /\ UNCHANGED <<pc, fault, location, graph, marked, item, extracted, otherVars>>

\* w is marked, or the edge v-w is no better than distTo[w]
VisitSkip ==
    /\ pc = "range"
    /\ w \in Verts(location)
    /\ marked[w] \/ ~Better(graph, FindMSTState(mst, marked, distTo, pq), item.w, w)
    /\ RangeStep

\* a better edge to w, and the map holds key w: update
VisitUpdate ==
    /\ pc = "range"
    /\ w \in Verts(location)
    /\ ~marked[w]
    /\ Better(graph, FindMSTState(mst, marked, distTo, pq), item.w, w)
    /\ InQueue(pq, w)
    /\ RangeStep

\* a better edge to w, and the map holds no key w: insert
VisitInsert ==
    /\ pc = "range"
    /\ w \in Verts(location)
    /\ ~marked[w]
    /\ Better(graph, FindMSTState(mst, marked, distTo, pq), item.w, w)
    /\ ~InQueue(pq, w)
    /\ RangeStep

\* the range loop is over: visit returns to the main loop
VisitReturn ==
    /\ pc = "range"
    /\ UNCHANGED otherVars
    /\ w \notin Verts(location)
    /\ pc' = "loop"
    /\ UNCHANGED <<fault, mstVars>>

Next ==
    \/ FindDistances
    \/ FindMSTBegin
    \/ LoopPop
    \/ LoopExit
    \/ VisitMark
    \/ VisitSkip
    \/ VisitUpdate
    \/ VisitInsert
    \/ VisitReturn

Spec == Init /\ [][Next]_vars

(* ------------------------- claims: findMST ---------------------------- *)

V == NumVerts(location)

\* the vertices that have a parent edge slot: 1..V-1
NonRoot == Verts(location) \ {0}

RECURSIVE SumOver(_, _)
SumOver(f, S) ==
    IF S = {} THEN 0
    ELSE LET x == CHOOSE y \in S : TRUE
         IN  f[x] + SumOver(f, S \ {x})

RECURSIVE Climbs(_, _, _)
\* following parent[.] from u reaches vertex 0 without repeating a vertex
Climbs(parent, u, seen) ==
    IF u = 0 THEN TRUE
    ELSE IF u \in seen \/ u \notin DOMAIN parent THEN FALSE
    ELSE Climbs(parent, parent[u], seen \cup {u})

\* the spanning trees of the complete graph, each as its parent function
SpanningTrees ==
    { p \in [NonRoot -> Verts(location)] : \A u \in NonRoot : Climbs(p, u, {}) }

TreeWeight(p) == SumOver([u \in NonRoot |-> graph[p[u]][u]], NonRoot)

\* the sum of graph[e.v][e.w] over the recorded edges mst[1..V-1]
MSTWeight == SumOver([u \in NonRoot |-> graph[mst[u].v][mst[u].w]], NonRoot)

AllEdgesRecorded == \A u \in NonRoot : mst[u] # Nil

AnyMarked == \E u \in DOMAIN marked : marked[u]

\* C1: when findMST returns on V >= 2 points, the weight of the recorded
\* edges mst[1..V-1] is at most the weight of every spanning tree of the
\* complete distance graph.
C1_MinimumWeight ==
    (pc = "done" /\ V >= 2) =>
        /\ AllEdgesRecorded
        /\ \A p \in SpanningTrees : MSTWeight <= TreeWeight(p)

\* C2: when findMST returns on V >= 2 points, mst[w] is non-nil for every w
\* in 1..V-1, each edge has both endpoints in 0..V-1 and mst[w].w = w, and
\* following parent edges from any vertex reaches vertex 0 without repeating
\* a vertex.
C2_SpanningTree ==
    (pc = "done" /\ V >= 2) =>
        /\ AllEdgesRecorded
        /\ \A u \in NonRoot :
              /\ mst[u].v \in Verts(location)
              /\ mst[u].w \in Verts(location)
              /\ mst[u].w = u
        /\ \A u \in Verts(location) :
              Climbs([x \in NonRoot |-> mst[x].v], u, {})

\* C2 witness: findMST has returned on four points with a tree that is not
\* the star around vertex 0 and after an update of a queued item.
C2_Witness ==
    /\ pc = "done"
    /\ V >= 4
    /\ \E u \in NonRoot : mst[u] # Nil /\ mst[u].v # 0
    /\ C2_SpanningTree

\* C3: at every iteration of the main loop after the first, the vertex
\* extracted by heap.Pop and passed to visit is unmarked and its distTo is
\* the smallest among the unmarked vertices.
C3_PopsCheapestUnmarked ==
    (pc = "visit" /\ AnyMarked) =>
        /\ ~marked[item.w]
        /\ \A u \in Verts(location) : ~marked[u] => distTo[item.w] <= distTo[u]

\* C4: the queue never holds two items with the same destination vertex w.
C4_OneItemPerVertex ==
    \A i, j \in DOMAIN pq : pq[i].w = pq[j].w => i = j

ItemsOf(q, u) == { k \in DOMAIN q : q[k].w = u }

\* visit(v) has found an unmarked w with graph[v][w] < distTo[w]
FoundBetter ==
    /\ pc = "range"
    /\ w \in Verts(location)
    /\ ~marked[w]
    /\ graph[item.w][w] < distTo[w]

\* C5: whenever visit(v) finds an unmarked w with graph[v][w] < distTo[w]:
\* if the queue holds an item for vertex w its distance becomes the new
\* distance and the number of items is unchanged, otherwise exactly one new
\* item for vertex w with that distance is inserted; the branch is selected
\* by whether vertex w has an item.
C5_DecreaseOrInsert ==
    [][FoundBetter =>
         IF ItemsOf(pq, w) # {}
         THEN /\ PQLen(pq') = PQLen(pq)
              /\ \A u \in Verts(location) :
                    Cardinality(ItemsOf(pq', u)) = Cardinality(ItemsOf(pq, u))
              /\ \E k \in ItemsOf(pq', w) : pq'[k].distance = graph[item.w][w]
         ELSE /\ PQLen(pq') = PQLen(pq) + 1
              /\ Cardinality(ItemsOf(pq', w)) = 1
              /\ \E k \in ItemsOf(pq', w) : pq'[k].distance = graph[item.w][w]
    ]_vars

\* C6: every heap.Pop of the main loop returns an item whose distance is at
\* most the distance of every item that remains in the queue, and heap.Pop
\* is never invoked on an empty queue.
C6_PopReturnsMinimum ==
    /\ pc = "visit" => \A k \in DOMAIN pq : item.distance <= pq[k].distance
    /\ fault # "heap.Pop: empty queue"

\* C6 witness: a pop after pushes, an update and earlier pops that leaves
\* at least two items behind, one of them strictly farther.
C6_Witness ==
    /\ pc = "visit"
    /\ Cardinality({u \in DOMAIN marked : marked[u]}) >= 2
    /\ PQLen(pq) >= 2
    /\ \E k \in DOMAIN pq : item.distance < pq[k].distance
    /\ \E k \in DOMAIN pq : pq[k].distance # graph[pq[k].v][pq[k].w]

\* C7: with zero points findMST does not crash: it returns without any
\* visit and without an out-of-range access.
C7_EmptyInputFailsFast ==
    V = 0 => /\ pc # "panic"
             /\ fault = "none"
             /\ ~AnyMarked

(* ------------------- handlePrimMST, request by request ----------------- *)
(* net/http serves every request in a goroutine of its own.  The contents  *)
(* of a PrimMST are abstracted to their provenance: 0 for the zero value,  *)
(* r for data that stems from the form of request r.  The steps of one     *)
(* goroutine are the statements of handlePrimMST; each method call reads   *)
(* the package-level primmst when it is made.                              *)

\* number of concurrent requests
NRequests == 2

Requests == 1..NRequests

\* &PrimMST{}
ZeroPrimMST == [location |-> 0, endpoints |-> 0, graph |-> 0, mst |-> 0]

\* the statements of handlePrimMST, in order
NextStage(stage) ==
    CASE stage = "create" -> "generateVertices"
      [] stage = "generateVertices" -> "findDistances"
      [] stage = "findDistances" -> "findMST"
      [] stage = "findMST" -> "plotMST"
      [] stage = "plotMST" -> "done"

\* the mst-side variables do not take part in the handler's specification
PipelineIdle ==
    /\ pc = "idle"
    /\ fault = "none"
    /\ location = EmptyMap
    /\ graph = EmptyMap
    /\ mst = EmptyMap
    /\ marked = EmptyMap
    /\ distTo = EmptyMap
    /\ pq = EmptyMap
    /\ item = Nil
    /\ w = 0
    /\ extracted = << >>

InitHandler ==
    /\ PipelineIdle
    /\ primmst = NoInstance
    /\ instances = EmptyMap
    /\ rpc = [r \in Requests |-> "create"]
    /\ recv = [r \in Requests |-> NoInstance]
    /\ form \in [Requests -> {"ok", "bad"}]
    /\ response = [r \in Requests |-> Nil]
    /\ PlotIdle

\* primmst = &PrimMST{}: the instance of request r is instance r
HandleCreate(r) ==
    /\ rpc[r] = "create"
    /\ primmst' = r
    /\ instances' = [i \in DOMAIN instances \cup {r} |->
                        IF i = r THEN ZeroPrimMST ELSE instances[i]]
    /\ rpc' = [rpc EXCEPT ![r] = NextStage("create")]
    /\ UNCHANGED <<recv, form, response, pc, fault, mstVars, plotVars>>

\* err := primmst.generateVertices(r); an error only goes to status
HandleGenerateVertices(r) ==
    /\ rpc[r] = "generateVertices"
    /\ recv' = [recv EXCEPT ![r] = primmst]
    /\ instances' = IF form[r] = "ok"
                    THEN [instances EXCEPT ![primmst].location = r,
                                           ![primmst].endpoints = r]
                    ELSE instances
    /\ rpc' = [rpc EXCEPT ![r] = NextStage("generateVertices")]
    /\ UNCHANGED <<primmst, form, response, pc, fault, mstVars, plotVars>>

\* err = primmst.findDistances()
HandleFindDistances(r) ==
    /\ rpc[r] = "findDistances"
    /\ recv' = [recv EXCEPT ![r] = primmst]
    /\ instances' = [instances EXCEPT ![primmst].graph = instances[primmst].location]
    /\ rpc' = [rpc EXCEPT ![r] = NextStage("findDistances")]
    /\ UNCHANGED <<primmst, form, response, pc, fault, mstVars, plotVars>>

\* how findMST can end on p: it panics on an empty location (distTo[0]) and
\* on an empty graph (p.graph[v]); on a graph built from another location
\* the sizes decide.
FindMSTOutcomes(p) ==
    IF p.location = 0 \/ p.graph = 0 THEN {"panic"}
    ELSE IF p.graph = p.location THEN {"returned"}
    ELSE {"returned", "panic"}

\* err = primmst.findMST()
HandleFindMST(r) ==
    /\ rpc[r] = "findMST"
    /\ recv' = [recv EXCEPT ![r] = primmst]
    /\ \E outcome \in FindMSTOutcomes(instances[primmst]) :
          IF outcome = "panic"
          THEN /\ rpc' = [rpc EXCEPT ![r] = "panic"]
               /\ UNCHANGED instances
          ELSE /\ rpc' = [rpc EXCEPT ![r] = NextStage("findMST")]
               /\ instances' = [instances EXCEPT
                                   ![primmst].mst = instances[primmst].graph]
    /\ UNCHANGED <<primmst, form, response, pc, fault, mstVars, plotVars>>

\* how plotMST can end on p: p.mst[1:] panics on an empty mst; otherwise the
\* grid writes decide (see SpecPlot).
PlotMSTOutcomes(p) ==
    IF p.mst = 0 THEN {"panic"} ELSE {"rendered", "panic"}

\* err = primmst.plotMST(w, status)
HandlePlotMST(r) ==
    /\ rpc[r] = "plotMST"
    /\ recv' = [recv EXCEPT ![r] = primmst]
    /\ \E outcome \in PlotMSTOutcomes(instances[primmst]) :
          IF outcome = "panic"
          THEN /\ rpc' = [rpc EXCEPT ![r] = "panic"]
               /\ UNCHANGED response
          ELSE /\ rpc' = [rpc EXCEPT ![r] = NextStage("plotMST")]
               /\ response' = [response EXCEPT ![r] =
                                 [location |-> instances[primmst].location,
                                  mst |-> instances[primmst].mst]]
    /\ UNCHANGED <<primmst, instances, form, pc, fault, mstVars, plotVars>>

NextHandler ==
    \/ \E r \in Requests : HandleCreate(r)
    \/ \E r \in Requests : HandleGenerateVertices(r)
    \/ \E r \in Requests : HandleFindDistances(r)
    \/ \E r \in Requests : HandleFindMST(r)
    \/ \E r \in Requests : HandlePlotMST(r)

SpecHandler == InitHandler /\ [][NextHandler]_vars

\* C8: under every interleaving of concurrent handlePrimMST invocations,
\* the generateVertices, findDistances, findMST and plotMST steps of a
\* request all operate on the PrimMST instance this request created, and no
\* request reads or mutates the data of another request.
C8_OwnInstance ==
    /\ \A r \in DOMAIN recv : recv[r] # NoInstance => recv[r] = r
    /\ \A r \in DOMAIN response :
          response[r] # Nil => response[r] = [location |-> r, mst |-> r]

(* ------------------ generateVertices and plotMST ----------------------- *)
(* One request from the parsed form to the rendered grid.  Coordinates are *)
(* lattice points; rand.Float64() is drawn from the lattice steps of the   *)
(* box.  The scale factors stay rational: int(off * (k-1)/span + .5) is    *)
(* computed exactly.  A zero span makes the scale +Inf and the product     *)
(* 0 * Inf = NaN, whose conversion to int depends on the build.            *)

\* largest bound a form supplies
MaxBound == 2
\* largest vertex count a form supplies
PlotMaxV == 2

\* rows = 300
rows == 300
\* columns = rows
columns == rows

\* int(NaN) where the conversion yields the smallest int64
IntMin == -1000000000
\* int(NaN) where the conversion yields the largest int64
IntMax == 1000000000
\* an index computed from IntMin or IntMax: outside the grid whatever the rest
OutOfGrid == -1

FormValues ==
    [xmin : 0..MaxBound, ymin : 0..MaxBound, xmax : 0..MaxBound,
     ymax : 0..MaxBound, verts : 0..PlotMaxV]

\* the bounds after "if xmin >= xmax { xmin, xmax = xmax, xmin }"
CorrectedBounds(f) ==
    [xmin |-> IF f.xmin >= f.xmax THEN f.xmax ELSE f.xmin,
     xmax |-> IF f.xmin >= f.xmax THEN f.xmin ELSE f.xmax,
     ymin |-> IF f.ymin >= f.ymax THEN f.ymax ELSE f.ymin,
     ymax |-> IF f.ymin >= f.ymax THEN f.ymin ELSE f.ymax]

\* lo + (hi - lo) * rand.Float64(), rand.Float64() in [0, 1)
Coords(lo, hi) == IF lo < hi THEN lo..(hi - 1) ELSE {lo}

BoxPoints(ep) ==
    { [x |-> px, y |-> py] : px \in Coords(ep.xmin, ep.xmax),
                             py \in Coords(ep.ymin, ep.ymax) }

\* Go's integer conversion truncates toward zero (b > 0)
TruncDiv(a, b) == IF a >= 0 THEN a \div b ELSE -((-a) \div b)

\* int((num/den) * ((k - 1) / span) + .5)
Cell(k, num, den, span) ==
    IF span = 0 THEN nanInt
    ELSE TruncDiv(2 * (k - 1) * num + den * span, 2 * den * span)

\* row := int((p.ymax-y)*yscale + .5)
Row(pt) == Cell(rows, endpoints.ymax - pt.y, 1, endpoints.ymax - endpoints.ymin)

\* col := int((x-p.xmin)*xscale + .5)
Col(pt) == Cell(columns, pt.x - endpoints.xmin, 1, endpoints.xmax - endpoints.xmin)

IsHuge(n) == n = IntMin \/ n = IntMax

\* row*columns + col
GridIndex(row, col) ==
    IF IsHuge(row) \/ IsHuge(col) THEN OutOfGrid ELSE row * columns + col

\* the index is one of plot.Grid = make([]string, rows*columns)
InGrid(idx) == 0 <= idx /\ idx < rows * columns

\* plot.Grid[c] = label for every c of cells
Overlay(G, cells, label) ==
    [c \in DOMAIN G \cup cells |-> IF c \in cells THEN label ELSE G[c]]

RECURSIVE WriteSeq(_, _, _)
\* the writes plot.Grid[idxs[1]] = label, ... in order, up to the first
\* index out of range
WriteSeq(G, idxs, label) ==
    IF idxs = << >> THEN [Grid |-> G, ok |-> TRUE]
    ELSE IF ~InGrid(Head(idxs)) THEN [Grid |-> G, ok |-> FALSE]
    ELSE WriteSeq(Overlay(G, {Head(idxs)}, label), Tail(idxs), label)

\* lenEP: cmplx.Abs(endEP - beginEP)
LenEP ==
    CAbs([x |-> endpoints.xmax, y |-> endpoints.ymax],
         [x |-> endpoints.xmin, y |-> endpoints.ymin])

\* ncells := int(columns * lenEdge / lenEP)
NCells(lenEdge) ==
    IF LenEP = 0 THEN nanInt ELSE (columns * lenEdge) \div LenEP

\* the iterations of "for i := 0; i < ncells; i++" that decide the outcome:
\* with ncells = IntMax the first write is already out of range
Iterations(ncells) ==
    IF ncells = IntMax THEN 1 ELSE IF ncells <= 0 THEN 0 ELSE ncells

\* the index written at step i of the edge from b to en drawn in n steps
EdgeCellIndex(b, en, n, i) ==
    GridIndex(Cell(rows, (endpoints.ymax - b.y) * n - i * (en.y - b.y), n,
                   endpoints.ymax - endpoints.ymin),
              Cell(columns, (b.x - endpoints.xmin) * n + i * (en.x - b.x), n,
                   endpoints.xmax - endpoints.xmin))

Least(S) == CHOOSE x \in S : \A y \in S : x <= y

\* one iteration of "for _, e := range p.mst[1:]" without the distance
DrawEdge(G, b, en) ==
    LET n     == Iterations(NCells(CAbs(en, b)))
        idx   == [i \in 0..(n - 1) |-> EdgeCellIndex(b, en, n, i)]
        bad   == { i \in 0..(n - 1) : ~InGrid(idx[i]) }
        upto  == IF bad = {} THEN n ELSE Least(bad)
        G1    == Overlay(G, { idx[i] : i \in 0..(upto - 1) }, "edge")
    IN  IF bad # {} THEN [Grid |-> G1, ok |-> FALSE]
        ELSE WriteSeq(G1, << GridIndex(Row(b), Col(b)),
                             GridIndex(Row(en), Col(en)) >>, "vertex")

\* the five cells "startvertex" is written to, in the order of the writes
StartVertexWrites(pt) ==
    LET row == Row(pt)
        col == Col(pt)
    IN  IF IsHuge(row) \/ IsHuge(col) THEN << OutOfGrid >>
        ELSE << row * columns + col,
                (row + 1) * columns + col,
                (row - 1) * columns + col,
                row * columns + col + 1,
                row * columns + col - 1 >>

InitPlot ==
    /\ pc = "generateVertices"
    /\ fault = "none"
    /\ location = EmptyMap
    /\ graph = EmptyMap
    /\ mst = EmptyMap
    /\ marked = EmptyMap
    /\ distTo = EmptyMap
    /\ pq = EmptyMap
    /\ item = Nil
    /\ w = 0
    /\ extracted = << >>
    /\ HandlerIdle
    /\ formv \in FormValues
    /\ endpoints = ZeroEndpoints
    /\ Grid = EmptyMap
    /\ distance = 0
    /\ e = 0
    /\ nanInt \in {IntMin, 0, IntMax}

\* generateVertices on a form that parses: the corrected bounds go to
\* p.Endpoints and verts random points of the box to p.location
GenerateVertices ==
    /\ pc = "generateVertices"
    /\ endpoints' = CorrectedBounds(formv)
    /\ location' \in [0..(formv.verts - 1) -> BoxPoints(CorrectedBounds(formv))]
    /\ pc' = "findDistances"
    /\ UNCHANGED <<fault, graph, mst, marked, distTo, pq, item, w, extracted, handlerVars,
                   formv, Grid, distance, e, nanInt>>

\* findMST from its first to its last statement
FindMST ==
    /\ pc = "findMST"
    /\ IF 0 \in Verts(location)
       THEN LET r  == mainLoopFrom(graph, SeedState(location), << >>)
                st == r.st
            IN  /\ mst' = st.mst
                /\ marked' = st.marked
                /\ distTo' = st.distTo
                /\ pq' = st.pq
                /\ extracted' = r.extracted
                /\ pc' = "plotMST"
                /\ fault' = fault
       ELSE /\ mst' = EmptyMap
            /\ extracted' = extracted
            /\ marked' = EmptyMap
            /\ distTo' = EmptyMap
            /\ pq' = EmptyMap
            /\ pc' = "panic"
            /\ fault' = "distTo[0]: index out of range"
    /\ UNCHANGED <<location, graph, item, w, otherVars>>

\* plotMST up to the loop over the edges: the empty grid, the scale factors
PlotBegin ==
    /\ pc = "plotMST"
    /\ Grid' = EmptyMap
    /\ distance' = 0
    /\ e' = 1
    /\ pc' = "plotEdges"
    /\ UNCHANGED <<fault, mstVars, handlerVars, formv, endpoints, nanInt>>

\* one iteration of "for _, e := range p.mst[1:]"
PlotEdge ==
    /\ pc = "plotEdges"
    /\ e \in DOMAIN mst \ {0}
    /\ IF mst[e] = Nil
       THEN /\ pc' = "panic"
            /\ fault' = "e.v: nil pointer dereference"
            /\ UNCHANGED <<Grid, distance, e>>
       ELSE LET b  == location[mst[e].v]
                en == location[mst[e].w]
                r  == DrawEdge(Grid, b, en)
            IN  /\ distance' = distance + CAbs(en, b)
                /\ Grid' = r.Grid
                /\ IF r.ok
                   THEN /\ e' = e + 1
                        /\ UNCHANGED <<pc, fault>>
                   ELSE /\ pc' = "panic"
                        /\ fault' = "plot.Grid: index out of range"
                        /\ e' = e
    /\ UNCHANGED <<mstVars, handlerVars, formv, endpoints, nanInt>>

\* after the loop: the start vertex and its four neighbours, then the
\* labels, the status and the template
PlotStartVertex ==
    /\ pc = "plotEdges"
    /\ e \notin DOMAIN mst \ {0}
    /\ LET r == WriteSeq(Grid, StartVertexWrites(location[0]), "startvertex")
       IN  /\ Grid' = r.Grid
           /\ IF r.ok
              THEN /\ pc' = "rendered"
                   /\ fault' = fault
              ELSE /\ pc' = "panic"
                   /\ fault' = "plot.Grid: index out of range"
    /\ UNCHANGED <<mstVars, handlerVars, formv, endpoints, distance, e, nanInt>>

NextPlot ==
    \/ GenerateVertices
    \/ FindDistances
    \/ FindMST
    \/ PlotBegin
    \/ PlotEdge
    \/ PlotStartVertex

SpecPlot == InitPlot /\ [][NextPlot]_vars

(* --------------------------- claims: plotMST --------------------------- *)

\* generateVertices has stored the point set and the bounds
Generated == pc \notin {"idle", "generateVertices"} /\ formv # Nil

\* every point projects to a cell of the grid
PointsProjectInGrid ==
    \A u \in Verts(location) :
        /\ Row(location[u]) \in 0..(rows - 1)
        /\ Col(location[u]) \in 0..(columns - 1)

\* the start vertex's cell and its four direct neighbours in the 2-D grid
StartNeighbourhood ==
    LET row == Row(location[0])
        col == Col(location[0])
    IN  { r * columns + c : <<r, c>> \in
            { rc \in (0..(rows - 1)) \X (0..(columns - 1)) :
                \/ rc = <<row, col>>
                \/ rc[2] = col /\ (rc[1] = row + 1 \/ rc[1] = row - 1)
                \/ rc[1] = row /\ (rc[2] = col + 1 \/ rc[2] = col - 1) } }

DegenerateBox ==
    endpoints.xmin >= endpoints.xmax \/ endpoints.ymin >= endpoints.ymax

\* C9: for every point set whose points all project to cells of the grid
\* (the box being a proper one, xmin < xmax and ymin < ymax), every write
\* plotMST makes to plot.Grid uses an index in [0, rows*columns), and every
\* cell labelled "startvertex" is the start vertex's cell or one of its
\* four direct neighbours.
C9_WritesStayInGrid ==
    (Generated /\ ~DegenerateBox /\ PointsProjectInGrid) =>
        /\ fault # "plot.Grid: index out of range"
        /\ \A c \in DOMAIN Grid : Grid[c] = "startvertex" => c \in StartNeighbourhood

\* C10: after generateVertices' correction step the stored Endpoints
\* satisfy xmin < xmax and ymin < ymax, and plotMST given a box with
\* xmin >= xmax or ymin >= ymax does not go on to compute scale factors
\* and write the grid.
C10_BoundsStrict ==
    Generated =>
        /\ endpoints.xmin < endpoints.xmax
        /\ endpoints.ymin < endpoints.ymax
        /\ DegenerateBox => (pc \notin {"plotEdges", "rendered"} /\ Grid = EmptyMap)

\* C11: for a single point (V = 1) findMST ends without error after
\* exactly one extraction, that of vertex 0, records no parent edge
\* (mst[0] stays nil, mst[1:] is empty), and the total distance plotMST
\* accumulates is 0.
C11_SinglePoint ==
    (Generated /\ NumVerts(location) = 1
        /\ pc \in {"plotMST", "plotEdges", "rendered", "panic"}) =>
        /\ fault \notin {"distTo[0]: index out of range", "heap.Pop: empty queue"}
        /\ extracted = <<0>>
        /\ mst = (0 :> Nil)
        /\ distance = 0

\* a single point has gone through findMST and plotMST
C11_Witness ==
    /\ NumVerts(location) = 1
    /\ pc = "rendered"
    /\ extracted = <<0>>
    /\ distance = 0

(* ------------------------ claims: the main loop ------------------------ *)

\* the loop iterations in which heap.Pop returned an item for vertex u
Extractions(u) == { i \in DOMAIN extracted : extracted[i] = u }

\* C12: during one run of findMST every vertex is extracted from the
\* priority queue exactly once -- no vertex is ever popped twice, when the
\* loop is over every vertex 0..V-1 has been popped once -- and visit is
\* never called on an already marked vertex.
C12_ExtractedOnce ==
    /\ \A u \in Verts(location) : Cardinality(Extractions(u)) <= 1
    /\ pc = "done" => \A u \in Verts(location) : Cardinality(Extractions(u)) = 1
    /\ pc = "visit" => ~marked[item.w]

\* point sets drawn from the first FairNPoints points of PointPool
InitFair ==
    /\ Init
    /\ \A u \in Verts(location) :
          \E i \in 1..Min2(FairNPoints, Len(PointPool)) : location[u] = PointPool[i]

\* the program runs on: a statement that can be executed eventually is
SpecFair == InitFair /\ [][Next]_vars /\ WF_vars(Next)

\* findMST has returned nil: the queue is empty
Terminated == pc = "done" /\ PQLen(pq) = 0

\* C13: for every distance graph on V >= 1 points findMST's main loop
\* terminates: the queue eventually becomes empty, the number of items
\* ever pushed (one per extraction) is bounded (by 1 + V*(V-1), a push for
\* w needing a strictly smaller distTo[w]), and at termination marked[v]
\* is true for every vertex v in 0..V-1.
C13_Terminates ==
    /\ [](Len(extracted) <= 1 + V * (V - 1))
    /\ (V >= 1) => <>(Terminated /\ \A u \in Verts(location) : marked[u])

\* a run on three or more points has ended with every vertex marked
C13_Witness ==
    /\ V >= 3
    /\ Terminated
    /\ \A u \in Verts(location) : marked[u]
    /\ Len(extracted) > V

(* ------------------------- claims: the queue -------------------------- *)

\* a queue operation has been completed and findMST has not returned
QueueInUse == pc \in {"loop", "visit", "range", "done"}

\* C14: after every completed queue operation (seed + heap.Init,
\* heap.Push, heap.Pop, update/heap.Fix) the queue is a well-formed
\* indexed binary heap: the map's keys are exactly 0..len(pq)-1, every
\* item's index field equals the slot it is stored under, and for every
\* slot i > 0 the item at slot (i-1)/2 has distance <= the item at slot i.
C14_WellFormedHeap ==
    QueueInUse =>
        /\ DOMAIN pq = 0..(PQLen(pq) - 1)
        /\ \A i \in DOMAIN pq : pq[i].index = i
        /\ \A i \in DOMAIN pq : i > 0 => pq[Parent(i)].distance <= pq[i].distance

\* three or more items are queued, after pushes and pops, and they do not
\* all have the same distance
C14_Witness ==
    /\ pc = "loop"
    /\ PQLen(pq) >= 3
    /\ Len(extracted) >= 2
    /\ \E i \in DOMAIN pq : pq[i].distance > pq[0].distance

\* the seed item findMST puts in the queue before the loop
IsSeed(it) == it.v = 0 /\ it.w = 0

\* queued items with the slots exchanged for the vertices they belong to
DistancesOf(q, u) == { q[i].distance : i \in { k \in DOMAIN q : q[k].w = u } }

\* C15: in every reachable state of findMST each live queue item's
\* distance is the best-known connecting distance of its own vertex
\* (it.distance = distTo[it.w] for every item other than the seed whose
\* vertex is unmarked), and an update triggered for vertex w never changes
\* the distance of an item that belongs to a different vertex.
C15_ItemTracksDistTo ==
    /\ [](QueueInUse =>
            \A i \in DOMAIN pq :
                (~IsSeed(pq[i]) /\ ~marked[pq[i].w]) =>
                    pq[i].distance = distTo[pq[i].w])
    /\ [][(pc = "range" /\ pc' = "range" /\ PQLen(pq') = PQLen(pq)) =>
            \A u \in Verts(location) \ {w} :
                DistancesOf(pq', u) = DistancesOf(pq, u)]_vars

(* ------------------------ claims: the edges --------------------------- *)

\* the first loop iteration in which u was extracted, the one that marks it
MarkedAt(u) == Least(Extractions(u))

\* C16: in every reachable state of findMST every recorded edge mst[w] has
\* to-vertex w and a from-vertex that is marked and different from w (no
\* self-loop; vertex 0 never gets a parent edge), the from-vertex was
\* marked strictly before w is marked, and once w is marked mst[w] and
\* distTo[w] never change again.
C16_EdgesFromMarked ==
    /\ [](QueueInUse =>
            /\ 0 \in Verts(location) => mst[0] = Nil
            /\ \A u \in Verts(location) :
                  mst[u] # Nil =>
                      /\ mst[u].w = u
                      /\ mst[u].v # u
                      /\ marked[mst[u].v]
                      /\ marked[u] => MarkedAt(mst[u].v) < MarkedAt(u))
    /\ [][QueueInUse =>
            \A u \in Verts(location) :
                marked[u] => (mst'[u] = mst[u] /\ distTo'[u] = distTo[u])]_vars

\* the loop is over on three or more points, a vertex has a parent other
\* than vertex 0, and some vertex was extracted a second time
C16_Witness ==
    /\ pc = "done"
    /\ V >= 3
    /\ \E u \in Verts(location) : mst[u] # Nil /\ mst[u].v # 0
    /\ Len(extracted) > V

\* the marked vertices
Marked == { u \in Verts(location) : marked[u] }

\* the least distance from a marked vertex to u
NearestMarked(u) == Least({ graph[v][u] : v \in Marked })

\* C17: after every completed visit in findMST, for every unmarked vertex
\* w, distTo[w] equals the minimum of graph[v][w] over all marked vertices
\* v, and mst[w] is an edge (v, w) from a marked vertex v attaining that
\* minimum.
C17_DistToIsNearestMarked ==
    (pc \in {"loop", "done"} /\ AnyMarked) =>
        \A u \in Verts(location) \ Marked :
            /\ distTo[u] = NearestMarked(u)
            /\ mst[u] # Nil
            /\ mst[u].w = u
            /\ mst[u].v \in Marked
            /\ graph[mst[u].v][u] = NearestMarked(u)

\* a visit other than the first has lowered the distance of a vertex
\* that is still unmarked
C17_Witness ==
    /\ pc = "loop"
    /\ Len(extracted) >= 2
    /\ \E u \in Verts(location) \ Marked : mst[u] # Nil /\ mst[u].v # 0

(* ------------------- plotMST on a wide bounding box -------------------- *)
(* The box (0, 0) - (WideXmax, WideYmax) holds point sets with three        *)
(* points in a row between two others, which the small boxes of SpecPlot    *)
(* cannot.                                                                  *)

\* xmax of the forms of SpecWide
WideXmax == 3
\* ymax of the forms of SpecWide
WideYmax == 2
\* largest vertex count of the forms of SpecWide
WideMaxV == 4

WideFormValues ==
    [xmin : {0}, ymin : {0}, xmax : {WideXmax}, ymax : {WideYmax},
     verts : 0..WideMaxV]

InitWide ==
    /\ pc = "generateVertices"
    /\ fault = "none"
    /\ location = EmptyMap
    /\ graph = EmptyMap
    /\ mst = EmptyMap
    /\ marked = EmptyMap
    /\ distTo = EmptyMap
    /\ pq = EmptyMap
    /\ item = Nil
    /\ w = 0
    /\ extracted = << >>
    /\ HandlerIdle
    /\ formv \in WideFormValues
    /\ endpoints = ZeroEndpoints
    /\ Grid = EmptyMap
    /\ distance = 0
    /\ e = 0
    /\ nanInt \in {IntMin, 0, IntMax}

SpecWide == InitWide /\ [][NextPlot]_vars

\* the cell vertex u projects to
VertexCell(u) == GridIndex(Row(location[u]), Col(location[u]))

\* C18: in the grid plotMST produces, vertex marking takes priority over
\* edge marking: the cell every vertex of the tree projects to is
\* labelled "vertex" or "startvertex" in the final grid, never "edge",
\* whatever the order the edges are drawn in and whichever other edges
\* pass through that cell.
C18_VertexOverEdge ==
    pc = "rendered" =>
        \A u \in Verts(location) :
            /\ VertexCell(u) \in DOMAIN Grid
            /\ Grid[VertexCell(u)] \in {"vertex", "startvertex"}

(* ------------------------ claims: the handler -------------------------- *)

\* the positions of handlePrimMST at which no stage after
\* generateVertices has been run
NothingAfterGenerate == {"create", "generateVertices", "findDistances"}

\* C19: in handlePrimMST's pipeline generateVertices -> findDistances ->
\* findMST -> plotMST, once a stage returns an error no later stage is run
\* on the partially initialised PrimMST: a request whose generateVertices
\* fails (a form that does not parse) never gets as far as findDistances,
\* findMST or plotMST having been executed.
C19_StopsAtFirstError ==
    \A r \in Requests : form[r] = "bad" => rpc[r] \in NothingAfterGenerate

====
